---- MODULE Spec2Model ----
(***************************************************************************)
(* Model of the presigned-URL regeneration job: the entry point            *)
(* regeneratePresignedUrls (handler.mjs), the per-page batch processor     *)
(* processItemsBatch, the record updater updateItemPresignedUrls, the key  *)
(* resolver determinePrimaryKey, and the run reporter sendJobSummaryEmail  *)
(* (email-service.mjs).                                                    *)
(*                                                                         *)
(* One invocation of the entry point is modelled.  Every await of the code *)
(* is a position of the driver (pc) or of a record task (tasks[i].pc); an  *)
(* action is the code that runs between two awaits.                        *)
(***************************************************************************)
EXTENDS Integers, Sequences, FiniteSets, TLC

----------------------------------------------------------------------------
(* Bounds of the model *)

\* most pages the metadata store serves in one run
MaxPages == 2
\* most records the store holds, over all its pages
MaxRecords == 2
\* most page fetches the store answers with the throttling error in one run
MaxThrottle == 2

(* Program constants *)

\* handler.mjs:44, the Limit of every scan
BATCH_SIZE == 25
\* handler.mjs:265, delay between two pages, in ms
InterPageDelayMs == 100
\* handler.mjs:273, wait after a throttled scan, in ms
ThrottleBackoffMs == 1000

----------------------------------------------------------------------------
(* Values *)

\* an absent field / an unset environment variable / null
NONE == "NONE"

\* JavaScript truthiness of a string-or-absent value: undefined, null and ""
\* are falsy
Truthy(v) == v # NONE /\ v # ""

ThrottleName == "ProvisionedThroughputExceededException"
OtherErrorName == "ServiceException"

\* errors a collaborator can answer with: [name, message]; NoError is no error
NoError == [name |-> NONE, message |-> NONE]
ThrottleError == [name |-> ThrottleName, message |-> "Throughput exceeded"]
OtherError == [name |-> OtherErrorName, message |-> "DynamoDB error"]
StoreErrors == {ThrottleError, OtherError}

ConfigMessage == "Required environment variables TABLE_NAME and S3_BUCKET_NAME must be set"
CredentialsMessage == "AWS_ACCESS_KEY_ID and AWS_SECRET_ACCESS_KEY must be set for long-term presigned URLs"

\* the fields of a record the job reads (README, DynamoDB Table Schema)
ObjectKeys == {NONE, "", "images/a.jpg"}
ImageNames == {NONE, "a.jpg"}
SelectionIds == {NONE, "sel1"}
Ids == {NONE, "id1"}
AllRecords == [objectKey : ObjectKeys, imageName : ImageNames,
               selectionId : SelectionIds, id : Ids]

\* the records the store serves in a run: every object reference, with one
\* choice of identifying fields for each branch of determinePrimaryKey (both
\* table keys, one of them alone, the generic id alone, none)
Records ==
  {r \in AllRecords :
     \/ ~Truthy(r.id)
     \/ ~Truthy(r.imageName) /\ ~Truthy(r.selectionId)}

\* sequences over S of length lo..hi
SeqsOf(S, lo, hi) == UNION {[1..n -> S] : n \in lo..hi}

RECURSIVE SumSeq(_)
SumSeq(s) == IF s = <<>> THEN 0 ELSE Head(s) + SumSeq(Tail(s))

----------------------------------------------------------------------------
(* determinePrimaryKey, handler.mjs:73-91.  A key is the set of the        *)
(* attribute names it is made of, paired with their values; null is NoKey. *)

NoKey == [attrs |-> {}, imageName |-> NONE, selectionId |-> NONE, id |-> NONE]

\* determinePrimaryKey with the test of line 79 ahead of the test of line 76
determinePrimaryKey_ImageFirst(item) ==
  IF Truthy(item.imageName)
    THEN [attrs |-> {"imageName"},
          imageName |-> item.imageName, selectionId |-> NONE, id |-> NONE]
  ELSE IF Truthy(item.imageName) /\ Truthy(item.selectionId)
    THEN [attrs |-> {"imageName", "selectionId"},
          imageName |-> item.imageName, selectionId |-> item.selectionId, id |-> NONE]
  ELSE IF Truthy(item.selectionId)
    THEN [attrs |-> {"selectionId"},
          imageName |-> NONE, selectionId |-> item.selectionId, id |-> NONE]
  ELSE IF Truthy(item.id)
    THEN [attrs |-> {"id"},
          imageName |-> NONE, selectionId |-> NONE, id |-> item.id]
  ELSE NoKey

\* determinePrimaryKey without the fallback of lines 85-87
determinePrimaryKey_NoIdFallback(item) ==
  IF Truthy(item.imageName) /\ Truthy(item.selectionId)
    THEN [attrs |-> {"imageName", "selectionId"},
          imageName |-> item.imageName, selectionId |-> item.selectionId, id |-> NONE]
  ELSE IF Truthy(item.imageName)
    THEN [attrs |-> {"imageName"},
          imageName |-> item.imageName, selectionId |-> NONE, id |-> NONE]
  ELSE IF Truthy(item.selectionId)
    THEN [attrs |-> {"selectionId"},
          imageName |-> NONE, selectionId |-> item.selectionId, id |-> NONE]
  ELSE NoKey

determinePrimaryKey(item) ==
  IF Truthy(item.imageName) /\ Truthy(item.selectionId)
    THEN [attrs |-> {"imageName", "selectionId"},
          imageName |-> item.imageName, selectionId |-> item.selectionId, id |-> NONE]
  ELSE IF Truthy(item.imageName)
    THEN [attrs |-> {"imageName"},
          imageName |-> item.imageName, selectionId |-> NONE, id |-> NONE]
  ELSE IF Truthy(item.selectionId)
    THEN [attrs |-> {"selectionId"},
          imageName |-> NONE, selectionId |-> item.selectionId, id |-> NONE]
  ELSE IF Truthy(item.id)
    THEN [attrs |-> {"id"},
          imageName |-> NONE, selectionId |-> NONE, id |-> item.id]
  ELSE NoKey

----------------------------------------------------------------------------
(* updateItemPresignedUrls, handler.mjs:93-163, cut at its two awaits:     *)
(* the signing call (line 103) and the store mutation (line 153).          *)
(* A task is one call of the function on one record of the page.           *)
(*   pc         "signing" / "updating" while the await is pending,         *)
(*              "settled" once the promise of the call has settled         *)
(*   exprs      updateExpressions, as the attribute names staged so far    *)
(*   key        Key of the UpdateCommand sent, NoKey while none was sent   *)
(*   signCalls, updateCalls   collaborator calls made by this task         *)
(*   result     the settled promise, as Promise.allSettled reports it      *)

Unsettled == [status |-> "pending", success |-> FALSE, error |-> NONE]
Fulfilled(success, error) ==
  [status |-> "fulfilled", success |-> success, error |-> error]

Failure(reason) == Fulfilled(FALSE, reason)
Success == Fulfilled(TRUE, NONE)

\* StageAndSend without the test of lines 130-136: the UpdateCommand is sent
\* with whatever determinePrimaryKey returned
StageAndSend_SendsWithoutKey(task, exprsAfterSign) ==
  LET exprs == Append(exprsAfterSign, "presignedUrlTimestamp")
      key == determinePrimaryKey(task.item)
  IN IF Len(exprs) = 1
       THEN [task EXCEPT !.pc = "settled", !.exprs = exprs,
                         !.result = Failure("No presignedUrl generated")]
     ELSE [task EXCEPT !.pc = "updating", !.exprs = exprs, !.key = key,
                       !.updateCalls = @ + 1]

\* StageAndSend with one more attribute in the UpdateExpression sent
StageAndSend_StagesExtra(task, exprsAfterSign) ==
  LET exprs == Append(exprsAfterSign, "presignedUrlTimestamp")
      key == determinePrimaryKey(task.item)
  IN IF Len(exprs) = 1
       THEN [task EXCEPT !.pc = "settled", !.exprs = exprs,
                         !.result = Failure("No presignedUrl generated")]
     ELSE IF key = NoKey
       THEN [task EXCEPT !.pc = "settled", !.exprs = exprs,
                         !.result = Failure("Unable to determine primary key")]
     ELSE [task EXCEPT !.pc = "updating", !.exprs = Append(exprs, "refreshCount"),
                       !.key = key, !.updateCalls = @ + 1]

\* lines 115-157: from the staging of the timestamp to the await of the
\* mutation, or to one of the two early returns
StageAndSend(task, exprsAfterSign) ==
  LET exprs == Append(exprsAfterSign, "presignedUrlTimestamp")
      key == determinePrimaryKey(task.item)
  IN IF Len(exprs) = 1
       THEN [task EXCEPT !.pc = "settled", !.exprs = exprs,
                         !.result = Failure("No presignedUrl generated")]
     ELSE IF key = NoKey
       THEN [task EXCEPT !.pc = "settled", !.exprs = exprs,
                         !.result = Failure("Unable to determine primary key")]
     ELSE [task EXCEPT !.pc = "updating", !.exprs = exprs, !.key = key,
                       !.updateCalls = @ + 1]

\* StartUpdate with the guard of line 101 written as a test for undefined:
\* an empty object reference is then signed
StartUpdate_DefinedCheck(item) ==
  LET task == [item |-> item, pc |-> "start", exprs |-> <<>>, key |-> NoKey,
               signCalls |-> 0, updateCalls |-> 0, result |-> Unsettled]
  IN IF item.objectKey # NONE
       THEN [task EXCEPT !.pc = "signing", !.signCalls = @ + 1]
       ELSE StageAndSend(task, <<>>)

\* lines 93-103: the call up to its first await
StartUpdate(item) ==
  LET task == [item |-> item, pc |-> "start", exprs |-> <<>>, key |-> NoKey,
               signCalls |-> 0, updateCalls |-> 0, result |-> Unsettled]
  IN IF Truthy(item.objectKey)
       THEN [task EXCEPT !.pc = "signing", !.signCalls = @ + 1]
       ELSE StageAndSend(task, <<>>)

\* lines 103-113 resumed: getSignedUrl answered; signed is FALSE when it raised
\* (generatePresignedUrl rethrows, line 68, and line 108 catches)
AfterSign(task, signed) ==
  StageAndSend(task, IF signed THEN <<"presignedUrl">> ELSE <<>>)

\* AfterUpdate sending the UpdateCommand again when the store throttled it
AfterUpdate_RetriesThrottle(task, err) ==
  IF err = NoError
    THEN [task EXCEPT !.pc = "settled", !.result = Success]
  ELSE IF err.name = ThrottleName /\ task.updateCalls < 2
    THEN [task EXCEPT !.updateCalls = @ + 1]
    ELSE [task EXCEPT !.pc = "settled", !.result = Failure(err.message)]

\* AfterUpdate without the catch of line 158: a store error rejects the promise
AfterUpdate_Rejects(task, err) ==
  IF err = NoError
    THEN [task EXCEPT !.pc = "settled", !.result = Success]
    ELSE [task EXCEPT !.pc = "settled",
                      !.result = [status |-> "rejected", success |-> FALSE,
                                  error |-> err.message]]

\* AfterUpdate sending the UpdateCommand a second time when the first failed
AfterUpdate_RetriesOnce(task, err) ==
  IF err = NoError
    THEN [task EXCEPT !.pc = "settled", !.result = Success]
  ELSE IF task.updateCalls < 2
    THEN [task EXCEPT !.updateCalls = @ + 1]
    ELSE [task EXCEPT !.pc = "settled", !.result = Failure(err.message)]

\* lines 153-162 resumed: the store answered the UpdateCommand; err is NoError or
\* the error raised, which the catch of line 158 turns into a failure outcome
AfterUpdate(task, err) ==
  IF err = NoError
    THEN [task EXCEPT !.pc = "settled", !.result = Success]
    ELSE [task EXCEPT !.pc = "settled", !.result = Failure(err.message)]

----------------------------------------------------------------------------
(* processItemsBatch, handler.mjs:165-192 *)

\* line 166: items.map starts every call, each running to its first await
StartBatch(items) == [i \in 1..Len(items) |-> StartUpdate(items[i])]

\* AllSettled resolving only when every call has succeeded
AllSettled_NeedsSuccess(ts) ==
  \A i \in 1..Len(ts) : ts[i].pc = "settled" /\ ts[i].result.success

\* AllSettled with a fail-fast join: the first failed call ends the wait
AllSettled_FailFast(ts) ==
  \/ \A i \in 1..Len(ts) : ts[i].pc = "settled"
  \/ \E i \in 1..Len(ts) : ts[i].pc = "settled" /\ ~ts[i].result.success

\* line 169: Promise.allSettled resolves once every call has settled
AllSettled(ts) == \A i \in 1..Len(ts) : ts[i].pc = "settled"

\* BatchCatch returning an empty count
BatchCatch_CountsNothing(ts) == [successCount |-> 0, errorCount |-> 0]

\* lines 188-191: what processItemsBatch returns when an exception is raised
\* inside its try block
BatchCatch(ts) == [successCount |-> 0, errorCount |-> Len(ts)]

\* CountsOf with line 175 testing the promise status alone
CountsOf_IgnoresValue(ts) ==
  LET ok == {i \in 1..Len(ts) : ts[i].result.status = "fulfilled"}
  IN [successCount |-> Cardinality(ok),
      errorCount |-> Len(ts) - Cardinality(ok)]

\* lines 171-187: the fold over the settled results
CountsOf(ts) ==
  LET ok == {i \in 1..Len(ts) :
               ts[i].result.status = "fulfilled" /\ ts[i].result.success}
  IN [successCount |-> Cardinality(ok),
      errorCount |-> Len(ts) - Cardinality(ok)]

----------------------------------------------------------------------------
(* sendJobSummaryEmail, email-service.mjs:333-390 *)

\* line 335: SES_TO_EMAILS?.split(',').map(trim) || [] for a value that holds
\* no comma and no blank: unset gives [], anything else one address, also ""
ToEmails(v) == IF v = NONE THEN <<>> ELSE <<v>>

\* lines 337-341: the configuration guard; TRUE when the send is skipped
SkipsEmail(fromEmail, toEmails) == ~Truthy(fromEmail) \/ Len(toEmails) = 0

\* SendOutcome with the catch of line 386 rethrowing
SendOutcome_Rethrows(err) == IF err = NoError THEN "returned" ELSE "raised"

\* lines 382-389: how the function ends once SES has answered the send with
\* err (NoError when it was accepted): the catch logs and does not rethrow
SendOutcome(err) == "returned"

MailFrom == {NONE, "noreply@example.com"}
MailTo == {NONE, "", "ops@example.com"}

----------------------------------------------------------------------------
(* State *)

VARIABLES
  config,            \* TABLE_NAME and S3_BUCKET_NAME, read at module load (lines 36-37)
  creds,             \* KEY_ID and ACCESS_KEY as read at line 213
  pageSizes,         \* the store: the number of records of each page it serves
  pc,                \* the await the entry point is suspended at
  exit,              \* how the pagination loop ended: "NONE", "DONE" or "FATAL"
  lastEvaluatedKey,  \* line 226; 0 is null, k > 0 the token returned with page k
  hasMoreItems,      \* line 227
  scanToken,         \* ExclusiveStartKey of the scan in flight, 0 when not set
  timer,             \* the setTimeout pending, in ms (lines 265, 273), 0 when none
  scanResult,        \* line 243: Items.length and LastEvaluatedKey of the last answer
  processedCount, successCount, errorCount,   \* lines 199-201
  jobStatus, jobError,                        \* lines 202-203
  tasks,             \* the calls of updateItemPresignedUrls of the page in flight
  batchResults,      \* line 255, what processItemsBatch returned last
  fetchCalls,        \* ScanCommands sent so far
  fetchErrors,       \* scans the store answered with an error
  throttled,         \* scans the store answered with the throttling error
  reissued,          \* scans sent again after the throttle wait
  served,            \* served[k]: how many times page k was delivered
  updaterCalls,      \* calls of updateItemPresignedUrls so far
  updatesOk,         \* UpdateCommands the store accepted
  joinFaults,        \* batches that ended in the catch of line 188
  reportPath,        \* which call of sendJobSummaryEmail is pending: line 297 or 329
  reports,           \* the job summaries handed to sendJobSummaryEmail
  mailEnv,           \* SES_FROM_EMAIL and SES_TO_EMAILS as read at lines 334-335
  sesSends,          \* SendEmailCommands sent
  sesAnswer,         \* what SES answered the last send with, NoError if accepted
  result,            \* what the entry point returned
  keyPage,           \* a page of records handed to determinePrimaryKey
  keyOut,            \* keyOut[i]: what determinePrimaryKey returned for keyPage[i]
  dbItem,            \* one item of the table, as the attributes it holds
  calls,             \* the calls of updateItemPresignedUrls made on dbItem
  values,            \* ExpressionAttributeValues of the call in flight, by name
  clock,             \* what new Date() reads (line 116)
  snaps              \* dbItem at the start and after each accepted UpdateCommand

runVars == <<config, creds, pageSizes, pc, exit, lastEvaluatedKey, hasMoreItems,
             scanToken, timer, scanResult, processedCount, successCount, errorCount,
             jobStatus, jobError, tasks, batchResults, fetchCalls, fetchErrors,
             throttled, reissued, served, updaterCalls, updatesOk, joinFaults,
             reportPath, reports,
             mailEnv, sesSends, sesAnswer, result>>

keyVars == <<keyPage, keyOut>>
updVars == <<dbItem, calls, values, clock, snaps>>
benchVars == <<keyVars, updVars>>

vars == <<runVars, benchVars>>

countVars == <<processedCount, successCount, errorCount>>
reportVars == <<jobStatus, jobError, reportPath, reports, mailEnv, sesSends, result>>

NoResult == [statusCode |-> 0, message |-> <<>>, processedCount |-> 0,
             successCount |-> 0, errorCount |-> 0, error |-> NONE]
NoBatch == [successCount |-> 0, errorCount |-> 0]
NoScan == [count |-> 0, LastEvaluatedKey |-> 0]
Unread == "UNREAD"

EnvValues == {NONE, "set"}

\* the entry point before its invocation
InitRun ==
  /\ config \in [TABLE_NAME : EnvValues, S3_BUCKET_NAME : EnvValues]
  /\ creds = [KEY_ID |-> Unread, ACCESS_KEY |-> Unread]
  /\ pageSizes \in {ps \in SeqsOf(0..MaxRecords, 1, MaxPages) :
                      SumSeq(ps) <= MaxRecords}
  /\ pc = "IDLE"
  /\ exit = "NONE"
  /\ lastEvaluatedKey = 0
  /\ hasMoreItems = FALSE
  /\ scanToken = 0
  /\ timer = 0
  /\ scanResult = NoScan
  /\ processedCount = 0 /\ successCount = 0 /\ errorCount = 0
  /\ jobStatus = NONE /\ jobError = NONE
  /\ tasks = <<>>
  /\ batchResults = NoBatch
  /\ fetchCalls = 0 /\ fetchErrors = 0 /\ throttled = 0 /\ reissued = 0
  /\ served = [k \in 1..Len(pageSizes) |-> 0]
  /\ updaterCalls = 0
  /\ updatesOk = 0
  /\ joinFaults = 0
  /\ reportPath = NONE
  /\ reports = <<>>
  /\ mailEnv = [SES_FROM_EMAIL |-> Unread, SES_TO_EMAILS |-> Unread]
  /\ sesSends = 0
  /\ sesAnswer = NoError
  /\ result = NoResult

NoValues == <<>>

\* nothing was handed to determinePrimaryKey
KeyIdle == keyPage = <<>> /\ keyOut = <<>>

\* no item is under update
UpdIdle ==
  /\ dbItem = <<>>
  /\ calls = <<>>
  /\ values = NoValues
  /\ clock = 0
  /\ snaps = <<>>

Init == InitRun /\ KeyIdle /\ UpdIdle

----------------------------------------------------------------------------
(* The two exits of regeneratePresignedUrls.  Both build the job summary,  *)
(* call sendJobSummaryEmail and, when it returns without a send, return    *)
(* the result at once; otherwise the entry point waits for SES.            *)

Summary(status, error, p, s, e) ==
  [status |-> status, error |-> error, processedCount |-> p,
   successCount |-> s, errorCount |-> e]

\* SuccessResult with record failures turned into a failed job
SuccessResult_FailsOnErrors(p, s, e) ==
  [statusCode |-> IF e > 0 THEN 500 ELSE 200,
   message |-> <<"Successfully processed">>,
   processedCount |-> p, successCount |-> s, errorCount |-> e, error |-> NONE]

\* lines 299-308
SuccessResult(p, s, e) ==
  [statusCode |-> 200, message |-> <<"Successfully processed">>,
   processedCount |-> p, successCount |-> s, errorCount |-> e, error |-> NONE]

\* lines 331-340
FailedResult(msg, p, s, e) ==
  [statusCode |-> 500, message |-> <<"Error in presigned URL regeneration: ", msg>>,
   processedCount |-> p, successCount |-> s, errorCount |-> e, error |-> msg]

\* process.env does not change during an invocation: a second read gives the
\* values of the first
MailEnvs ==
  IF mailEnv.SES_FROM_EMAIL = Unread
    THEN [SES_FROM_EMAIL : MailFrom, SES_TO_EMAILS : MailTo]
    ELSE {mailEnv}

\* lines 281-308, entered when the loop ends with the counters p, s, e
SuccessExit(p, s, e) ==
  /\ reports' = Append(reports, Summary(jobStatus, NONE, p, s, e))
  /\ UNCHANGED <<jobStatus, jobError>>
  /\ \E menv \in MailEnvs :
       /\ mailEnv' = menv
       /\ IF SkipsEmail(menv.SES_FROM_EMAIL, ToEmails(menv.SES_TO_EMAILS))
            THEN /\ pc' = "RETURNED"
                 /\ result' = SuccessResult(p, s, e)
                 /\ UNCHANGED <<sesSends, reportPath>>
            ELSE /\ pc' = "REPORTING"
                 /\ reportPath' = "success"
                 /\ sesSends' = sesSends + 1
                 /\ UNCHANGED result

\* CatchBlock without the call of line 329
CatchBlock_NoReport(msg, p, s, e) ==
  /\ jobStatus' = "failed"
  /\ jobError' = msg
  /\ pc' = "RETURNED"
  /\ result' = FailedResult(msg, p, s, e)
  /\ UNCHANGED <<reports, mailEnv, sesSends, reportPath>>

\* CatchBlock building its summary and result from fresh counters
CatchBlock_DropsCounters(msg, p, s, e) ==
  /\ jobStatus' = "failed"
  /\ jobError' = msg
  /\ reports' = Append(reports, Summary("failed", msg, 0, 0, 0))
  /\ \E menv \in MailEnvs :
       /\ mailEnv' = menv
       /\ IF SkipsEmail(menv.SES_FROM_EMAIL, ToEmails(menv.SES_TO_EMAILS))
            THEN /\ pc' = "RETURNED"
                 /\ result' = FailedResult(msg, 0, 0, 0)
                 /\ UNCHANGED <<sesSends, reportPath>>
            ELSE /\ pc' = "REPORTING"
                 /\ reportPath' = "failed"
                 /\ sesSends' = sesSends + 1
                 /\ UNCHANGED result

\* lines 309-341, the catch block, entered with the message of the error
\* caught and the counters p, s, e
CatchBlock(msg, p, s, e) ==
  /\ jobStatus' = "failed"
  /\ jobError' = msg
  /\ reports' = Append(reports, Summary("failed", msg, p, s, e))
  /\ \E menv \in MailEnvs :
       /\ mailEnv' = menv
       /\ IF SkipsEmail(menv.SES_FROM_EMAIL, ToEmails(menv.SES_TO_EMAILS))
            THEN /\ pc' = "RETURNED"
                 /\ result' = FailedResult(msg, p, s, e)
                 /\ UNCHANGED <<sesSends, reportPath>>
            ELSE /\ pc' = "REPORTING"
                 /\ reportPath' = "failed"
                 /\ sesSends' = sesSends + 1
                 /\ UNCHANGED result

----------------------------------------------------------------------------
(* The pagination loop of regeneratePresignedUrls, handler.mjs:229-279 *)

\* lines 230-243: the loop body up to the await of the scan
IssueScan(token) ==
  /\ scanToken' = token
  /\ fetchCalls' = fetchCalls + 1
  /\ pc' = "SCANNING"

\* IsThrottling as a retry on any store error
IsThrottling_AnyError(err) == err.name # NONE

\* line 271: the one error the loop retries
IsThrottling(err) == err.name = ThrottleName

\* AfterPage with line 262 dropped: hasMoreItems stays true and the loop goes
\* on after a page that came without a token
AfterPage_LoopsOnNoToken(nextKey, p, s, e) ==
  /\ lastEvaluatedKey' = nextKey
  /\ hasMoreItems' = TRUE
  /\ pc' = "PAGE_DELAY"
  /\ timer' = InterPageDelayMs
  /\ UNCHANGED <<exit, reportVars>>

\* AfterPage with the continuation token ignored: the loop ends after the page
AfterPage_StopsEarly(nextKey, p, s, e) ==
  /\ lastEvaluatedKey' = nextKey
  /\ hasMoreItems' = FALSE
  /\ exit' = "DONE"
  /\ SuccessExit(p, s, e)
  /\ UNCHANGED timer

\* lines 261-266 and the loop condition: after a page with the counters p, s, e
AfterPage(nextKey, p, s, e) ==
  /\ lastEvaluatedKey' = nextKey
  /\ hasMoreItems' = (nextKey # 0)
  /\ IF nextKey # 0
       THEN /\ pc' = "PAGE_DELAY"
            /\ timer' = InterPageDelayMs
            /\ UNCHANGED <<exit, reportVars>>
       ELSE /\ exit' = "DONE"
            /\ SuccessExit(p, s, e)
            /\ UNCHANGED timer

\* ConfigMissing without the test of the bucket identifier
ConfigMissing_TableOnly(cfg) == ~Truthy(cfg.TABLE_NAME)

\* line 206: the guard on the table and bucket identifiers
ConfigMissing(cfg) == ~Truthy(cfg.TABLE_NAME) \/ ~Truthy(cfg.S3_BUCKET_NAME)

\* CredentialsMissing without the test of the secret key
CredentialsMissing_KeyIdOnly(c) == ~Truthy(c.KEY_ID)

\* line 213: the guard on the long-term signing credentials
CredentialsMissing(c) == ~Truthy(c.KEY_ID) \/ ~Truthy(c.ACCESS_KEY)

\* lines 194-243: the invocation up to the first scan, or to the catch block
\* when the configuration is incomplete
Invoke ==
  /\ pc = "IDLE"
  /\ UNCHANGED <<benchVars, joinFaults, updatesOk, config, pageSizes, timer, scanResult, countVars, tasks, batchResults,
                 fetchErrors, throttled, reissued, served, updaterCalls, sesAnswer>>
  /\ IF ConfigMissing(config)
       THEN /\ exit' = "FATAL"
            /\ CatchBlock(ConfigMessage, processedCount, successCount, errorCount)
            /\ UNCHANGED <<creds, lastEvaluatedKey, hasMoreItems, scanToken, fetchCalls>>
       ELSE \E c \in [KEY_ID : EnvValues, ACCESS_KEY : EnvValues] :
              /\ creds' = c
              /\ IF CredentialsMissing(c)
                   THEN /\ exit' = "FATAL"
                        /\ CatchBlock(CredentialsMessage, processedCount,
                                      successCount, errorCount)
                        /\ UNCHANGED <<lastEvaluatedKey, hasMoreItems, scanToken,
                                       fetchCalls>>
                   ELSE /\ lastEvaluatedKey' = 0
                        /\ hasMoreItems' = TRUE
                        /\ IssueScan(0)
                        /\ jobStatus' = "success"
                        /\ UNCHANGED <<exit, jobError, reportPath, reports,
                                       mailEnv, sesSends, result>>

\* ScanOk with lines 261-262 inside the test of line 245: an empty page leaves
\* no token behind and ends the loop
ScanOk_EmptyPageEnds ==
  /\ pc = "SCANNING"
  /\ scanToken + 1 \in DOMAIN pageSizes
  /\ LET k == scanToken + 1
         nextKey == IF k < Len(pageSizes) THEN k ELSE 0
     IN /\ pageSizes[k] <= BATCH_SIZE
        /\ served' = [served EXCEPT ![k] = @ + 1]
        /\ scanResult' = [count |-> pageSizes[k], LastEvaluatedKey |-> nextKey]
        /\ \E items \in [1..pageSizes[k] -> Records] :
             IF Len(items) > 0
               THEN /\ tasks' = StartBatch(items)
                    /\ updaterCalls' = updaterCalls + Len(items)
                    /\ pc' = "BATCH"
                    /\ UNCHANGED <<exit, lastEvaluatedKey, hasMoreItems, timer,
                                   reportVars>>
               ELSE /\ AfterPage(0, processedCount, successCount, errorCount)
                    /\ UNCHANGED <<tasks, updaterCalls>>
  /\ UNCHANGED <<benchVars, joinFaults, updatesOk, config, creds, pageSizes, scanToken, countVars, batchResults,
                 fetchCalls, fetchErrors, throttled, reissued, sesAnswer>>

\* lines 243-266: the store answers the scan with page scanToken + 1; a
\* non-empty page starts its batch (line 255, up to the await of line 169)
ScanOk ==
  /\ pc = "SCANNING"
  /\ scanToken + 1 \in DOMAIN pageSizes
  /\ LET k == scanToken + 1
         nextKey == IF k < Len(pageSizes) THEN k ELSE 0
     IN /\ pageSizes[k] <= BATCH_SIZE
        /\ served' = [served EXCEPT ![k] = @ + 1]
        /\ scanResult' = [count |-> pageSizes[k], LastEvaluatedKey |-> nextKey]
        /\ \E items \in [1..pageSizes[k] -> Records] :
             IF Len(items) > 0
               THEN /\ tasks' = StartBatch(items)
                    /\ updaterCalls' = updaterCalls + Len(items)
                    /\ pc' = "BATCH"
                    /\ UNCHANGED <<exit, lastEvaluatedKey, hasMoreItems, timer,
                                   reportVars>>
               ELSE /\ AfterPage(nextKey, processedCount, successCount, errorCount)
                    /\ UNCHANGED <<tasks, updaterCalls>>
  /\ UNCHANGED <<benchVars, joinFaults, updatesOk, config, creds, pageSizes, scanToken, countVars, batchResults,
                 fetchCalls, fetchErrors, throttled, reissued, sesAnswer>>

\* lines 103-113 of one call: the signing collaborator answers
SignDone(i) ==
  /\ pc = "BATCH"
  /\ tasks[i].pc = "signing"
  /\ \E signed \in BOOLEAN : tasks' = [tasks EXCEPT ![i] = AfterSign(@, signed)]
  /\ UNCHANGED <<benchVars, joinFaults, updatesOk, config, creds, pageSizes, pc, exit, lastEvaluatedKey,
                 hasMoreItems, scanToken, timer, scanResult, countVars, batchResults,
                 fetchCalls, fetchErrors, throttled, reissued, served,
                 updaterCalls, reportVars, sesAnswer>>

\* lines 153-162 of one call: the store answers the UpdateCommand
UpdateDone(i) ==
  /\ pc = "BATCH"
  /\ tasks[i].pc = "updating"
  /\ \E err \in {NoError} \cup StoreErrors :
       /\ tasks' = [tasks EXCEPT ![i] = AfterUpdate(@, err)]
       /\ updatesOk' = updatesOk + (IF err = NoError THEN 1 ELSE 0)
  /\ UNCHANGED <<benchVars, joinFaults, config, creds, pageSizes, pc, exit, lastEvaluatedKey,
                 hasMoreItems, scanToken, timer, scanResult, countVars, batchResults,
                 fetchCalls, fetchErrors, throttled, reissued, served,
                 updaterCalls, reportVars, sesAnswer>>

\* BatchJoin without the await of line 255: the loop goes on while the calls
\* of the page are still pending
BatchJoin_Eager ==
  /\ pc = "BATCH"
  /\ LET r == CountsOf(tasks)
         p == processedCount + scanResult.count
         s == successCount + r.successCount
         e == errorCount + r.errorCount
     IN /\ batchResults' = r
        /\ processedCount' = p
        /\ successCount' = s
        /\ errorCount' = e
        /\ AfterPage(scanResult.LastEvaluatedKey, p, s, e)
  /\ tasks' = tasks
  /\ UNCHANGED <<benchVars, joinFaults, updatesOk, config, creds, pageSizes, scanToken, scanResult, fetchCalls,
                 fetchErrors, throttled, reissued, served, updaterCalls, sesAnswer>>

\* lines 169-187 and 255-266: every call of the page has settled; the counts
\* are folded into the totals and the loop goes on or ends
BatchJoin ==
  /\ pc = "BATCH"
  /\ AllSettled(tasks)
  /\ LET r == CountsOf(tasks)
         p == processedCount + scanResult.count
         s == successCount + r.successCount
         e == errorCount + r.errorCount
     IN /\ batchResults' = r
        /\ processedCount' = p
        /\ successCount' = s
        /\ errorCount' = e
        /\ AfterPage(scanResult.LastEvaluatedKey, p, s, e)
  /\ tasks' = <<>>
  /\ UNCHANGED <<benchVars, joinFaults, updatesOk, config, creds, pageSizes, scanToken, scanResult, fetchCalls,
                 fetchErrors, throttled, reissued, served, updaterCalls, sesAnswer>>

\* line 265 elapsed: the next iteration sends its scan
DelayDone ==
  /\ pc = "PAGE_DELAY"
  /\ timer' = 0
  /\ IssueScan(lastEvaluatedKey)
  /\ UNCHANGED <<benchVars, joinFaults, updatesOk, config, creds, pageSizes, exit, lastEvaluatedKey, hasMoreItems,
                 scanResult, countVars, tasks, batchResults, fetchErrors,
                 throttled, reissued, served, updaterCalls, reportVars, sesAnswer>>

\* ScanFail with line 269 after the throttling test: only the fatal error counts
ScanFail_ThrottleUncounted ==
  /\ pc = "SCANNING"
  /\ fetchErrors < MaxThrottle
  /\ \E err \in StoreErrors :
       /\ errorCount' = errorCount + (IF IsThrottling(err) THEN 0 ELSE 1)
       /\ fetchErrors' = fetchErrors + 1
       /\ throttled' = throttled + (IF err = ThrottleError THEN 1 ELSE 0)
       /\ IF IsThrottling(err)
            THEN /\ pc' = "THROTTLE_WAIT"
                 /\ timer' = ThrottleBackoffMs
                 /\ UNCHANGED <<exit, reportVars>>
            ELSE /\ exit' = "FATAL"
                 /\ CatchBlock(err.message, processedCount, successCount,
                               errorCount + 1)
                 /\ UNCHANGED timer
  /\ UNCHANGED <<benchVars, joinFaults, updatesOk, config, creds, pageSizes, lastEvaluatedKey, hasMoreItems,
                 scanToken, scanResult, processedCount, successCount, tasks,
                 batchResults, fetchCalls, reissued, served, updaterCalls, sesAnswer>>

\* ScanFail with a wait that grows with the throttling errors seen so far
ScanFail_GrowingBackoff ==
  /\ pc = "SCANNING"
  /\ fetchErrors < MaxThrottle
  /\ \E err \in StoreErrors :
       /\ errorCount' = errorCount + 1
       /\ fetchErrors' = fetchErrors + 1
       /\ throttled' = throttled + (IF err = ThrottleError THEN 1 ELSE 0)
       /\ IF IsThrottling(err)
            THEN /\ pc' = "THROTTLE_WAIT"
                 /\ timer' = ThrottleBackoffMs * (throttled + 1)
                 /\ UNCHANGED <<exit, reportVars>>
            ELSE /\ exit' = "FATAL"
                 /\ CatchBlock(err.message, processedCount, successCount,
                               errorCount + 1)
                 /\ UNCHANGED timer
  /\ UNCHANGED <<benchVars, joinFaults, updatesOk, config, creds, pageSizes, lastEvaluatedKey, hasMoreItems,
                 scanToken, scanResult, processedCount, successCount, tasks,
                 batchResults, fetchCalls, reissued, served, updaterCalls, sesAnswer>>

\* ScanFail with line 269 inside the throttling branch: the fatal error is not
\* counted
ScanFail_FatalUncounted ==
  /\ pc = "SCANNING"
  /\ fetchErrors < MaxThrottle
  /\ \E err \in StoreErrors :
       /\ errorCount' = errorCount + (IF IsThrottling(err) THEN 1 ELSE 0)
       /\ fetchErrors' = fetchErrors + 1
       /\ throttled' = throttled + (IF err = ThrottleError THEN 1 ELSE 0)
       /\ IF IsThrottling(err)
            THEN /\ pc' = "THROTTLE_WAIT"
                 /\ timer' = ThrottleBackoffMs
                 /\ UNCHANGED <<exit, reportVars>>
            ELSE /\ exit' = "FATAL"
                 /\ CatchBlock(err.message, processedCount, successCount,
                               errorCount)
                 /\ UNCHANGED timer
  /\ UNCHANGED <<benchVars, joinFaults, updatesOk, config, creds, pageSizes, lastEvaluatedKey, hasMoreItems,
                 scanToken, scanResult, processedCount, successCount, tasks,
                 batchResults, fetchCalls, reissued, served, updaterCalls, sesAnswer>>

\* lines 267-278: the store answers the scan with an error
ScanFail ==
  /\ pc = "SCANNING"
  /\ fetchErrors < MaxThrottle
  /\ \E err \in StoreErrors :
       /\ errorCount' = errorCount + 1
       /\ fetchErrors' = fetchErrors + 1
       /\ throttled' = throttled + (IF err = ThrottleError THEN 1 ELSE 0)
       /\ IF IsThrottling(err)
            THEN /\ pc' = "THROTTLE_WAIT"
                 /\ timer' = ThrottleBackoffMs
                 /\ UNCHANGED <<exit, reportVars>>
            ELSE /\ exit' = "FATAL"
                 /\ CatchBlock(err.message, processedCount, successCount,
                               errorCount + 1)
                 /\ UNCHANGED timer
  /\ UNCHANGED <<benchVars, joinFaults, updatesOk, config, creds, pageSizes, lastEvaluatedKey, hasMoreItems,
                 scanToken, scanResult, processedCount, successCount, tasks,
                 batchResults, fetchCalls, reissued, served, updaterCalls, sesAnswer>>

\* ThrottleRetry moving on to the page after the throttled one
ThrottleRetry_SkipsPage ==
  /\ pc = "THROTTLE_WAIT"
  /\ timer' = 0
  /\ IssueScan(IF scanToken + 1 < Len(pageSizes) THEN scanToken + 1 ELSE scanToken)
  /\ reissued' = reissued + 1
  /\ UNCHANGED <<benchVars, joinFaults, updatesOk, config, creds, pageSizes, exit, lastEvaluatedKey, hasMoreItems,
                 scanResult, countVars, tasks, batchResults, fetchErrors,
                 throttled, served, updaterCalls, reportVars, sesAnswer>>

\* ThrottleRetry with the continuation token dropped: the scan restarts
ThrottleRetry_FromStart ==
  /\ pc = "THROTTLE_WAIT"
  /\ timer' = 0
  /\ IssueScan(0)
  /\ reissued' = reissued + 1
  /\ UNCHANGED <<benchVars, joinFaults, updatesOk, config, creds, pageSizes, exit, lastEvaluatedKey, hasMoreItems,
                 scanResult, countVars, tasks, batchResults, fetchErrors,
                 throttled, served, updaterCalls, reportVars, sesAnswer>>

\* line 273 elapsed, line 274: continue, and the loop sends the scan again
ThrottleRetry ==
  /\ pc = "THROTTLE_WAIT"
  /\ timer' = 0
  /\ IssueScan(lastEvaluatedKey)
  /\ reissued' = reissued + 1
  /\ UNCHANGED <<benchVars, joinFaults, updatesOk, config, creds, pageSizes, exit, lastEvaluatedKey, hasMoreItems,
                 scanResult, countVars, tasks, batchResults, fetchErrors,
                 throttled, served, updaterCalls, reportVars, sesAnswer>>

SesError == [name |-> "Error", message |-> "SES service error"]

\* email-service.mjs:382-389 and handler.mjs:297-308 / 329-341: SES answers
\* the send, sendJobSummaryEmail ends and the entry point returns
SesDone ==
  /\ pc = "REPORTING"
  /\ \E err \in {NoError, SesError} :
       /\ sesAnswer' = err
       /\ IF SendOutcome(err) = "returned"
            THEN /\ pc' = "RETURNED"
                 /\ result' = IF reportPath = "success"
                                THEN SuccessResult(processedCount, successCount, errorCount)
                                ELSE FailedResult(jobError, processedCount,
                                                  successCount, errorCount)
                 /\ UNCHANGED <<jobStatus, jobError, reportPath, reports, mailEnv,
                                sesSends, exit>>
            ELSE IF reportPath = "success"
              \* line 297 is inside the try of line 205: a rejection lands in the catch
              THEN /\ CatchBlock(err.message, processedCount, successCount, errorCount)
                   /\ UNCHANGED exit
              \* line 329 is inside the catch block: a rejection leaves the entry point
              ELSE /\ pc' = "THREW"
                   /\ UNCHANGED <<jobStatus, jobError, reportPath, reports, mailEnv,
                                  sesSends, result, exit>>
  /\ UNCHANGED <<benchVars, joinFaults, updatesOk, config, creds, pageSizes, lastEvaluatedKey, hasMoreItems,
                 scanToken, timer, scanResult, countVars, tasks, batchResults,
                 fetchCalls, fetchErrors, throttled, reissued, served,
                 updaterCalls>>

Next ==
  \/ Invoke
  \/ ScanOk
  \/ \E i \in 1..MaxRecords : i \in DOMAIN tasks /\ SignDone(i)
  \/ \E i \in 1..MaxRecords : i \in DOMAIN tasks /\ UpdateDone(i)
  \/ BatchJoin
  \/ DelayDone
  \/ ScanFail
  \/ ThrottleRetry
  \/ SesDone

Spec == Init /\ [][Next]_vars

\* most records the store holds in the runs checked for termination
LiveRecords == 1

LiveInit == Init /\ SumSeq(pageSizes) <= LiveRecords

\* every await of the run is answered in the end: the store, the signer and
\* SES answer each request, and each timer fires
LiveSpec == LiveInit /\ [][Next]_vars /\ WF_vars(Next)

----------------------------------------------------------------------------
(* The entry point with a runtime fault inside processItemsBatch: once the *)
(* join of line 169 has completed, an exception is raised in the try block *)
(* (lines 169-187) and the catch of line 188 answers for the page.         *)

JoinFault ==
  /\ pc = "BATCH"
  /\ AllSettled(tasks)
  /\ LET r == BatchCatch(tasks)
         p == processedCount + scanResult.count
         s == successCount + r.successCount
         e == errorCount + r.errorCount
     IN /\ batchResults' = r
        /\ processedCount' = p
        /\ successCount' = s
        /\ errorCount' = e
        /\ AfterPage(scanResult.LastEvaluatedKey, p, s, e)
  /\ tasks' = <<>>
  /\ joinFaults' = joinFaults + 1
  /\ UNCHANGED <<benchVars, updatesOk, config, creds, pageSizes, scanToken, scanResult, fetchCalls,
                 fetchErrors, throttled, reissued, served, updaterCalls, sesAnswer>>

FaultNext ==
  \/ Next
  \/ JoinFault

FaultSpec == Init /\ [][FaultNext]_vars

----------------------------------------------------------------------------
(* determinePrimaryKey on its own: a page of records, each one handed to   *)
(* the function in turn as line 167 hands the items of a page to the       *)
(* updater and line 129 each item to the function.                         *)

MaxKeyPage == 2

KeyRecords ==
  [objectKey : {NONE, "images/a.jpg"},
   imageName : {NONE, "", "a.jpg", "b.jpg"},
   selectionId : {NONE, "sel1", "sel2"},
   id : {NONE, "id1", "id2"}]

\* the entry point is not invoked
RunIdle ==
  /\ InitRun
  /\ config = [TABLE_NAME |-> "set", S3_BUCKET_NAME |-> "set"]
  /\ pageSizes = <<0>>

KeyInit ==
  /\ RunIdle
  /\ UpdIdle
  /\ keyPage \in SeqsOf(KeyRecords, 1, MaxKeyPage)
  /\ keyOut = <<>>

\* line 129 for the next record of the page
ResolveKey ==
  /\ Len(keyOut) < Len(keyPage)
  /\ keyOut' = Append(keyOut, determinePrimaryKey(keyPage[Len(keyOut) + 1]))
  /\ UNCHANGED <<keyPage, runVars, updVars>>

KeyNext == ResolveKey

KeySpec == KeyInit /\ [][KeyNext]_vars

----------------------------------------------------------------------------
(* Properties *)

TotalRecords == SumSeq(pageSizes)
TotalServed == SumSeq(served)
Returned == pc = "RETURNED"
ResultCounters == <<result.processedCount, result.successCount, result.errorCount>>
Counters == <<processedCount, successCount, errorCount>>
Succeeded(t) == t.result.status = "fulfilled" /\ t.result.success
Failed(t) == t.pc = "settled" /\ ~Succeeded(t)

\* C1: throttling loses and duplicates nothing.  When the loop ends normally,
\* whatever number of scans were throttled on the way (none included),
\* processedCount is the number of records of the store, every page was
\* delivered exactly once and the record updater was called once per record.
C1_ThrottlingLosesNothing ==
  exit = "DONE" =>
    /\ processedCount = TotalRecords
    /\ updaterCalls = TotalRecords
    /\ \A k \in DOMAIN served : served[k] = 1

\* a two-page run, each page with a record, that was throttled and returned
C1_Witness ==
  /\ Returned /\ exit = "DONE"
  /\ throttled >= 1
  /\ pageSizes = <<1, 1>>
  /\ processedCount = 2

\* C2: failure isolation inside a page.  The fan-out calls the updater on
\* every record of the page, whichever of them fail at once; while the batch
\* is awaited a step settles or advances one call only and never touches a
\* settled one; the batch is left only when every call has settled.
C2_FailureIsolation ==
  [][/\ (pc # "BATCH" /\ pc' = "BATCH") =>
          /\ Len(tasks') = scanResult'.count
          /\ \A i \in DOMAIN tasks' :
               IF Truthy(tasks'[i].item.objectKey)
                 THEN tasks'[i].pc = "signing" /\ tasks'[i].signCalls = 1
                 ELSE Failed(tasks'[i])
     /\ (pc = "BATCH" /\ pc' = "BATCH") =>
          /\ DOMAIN tasks' = DOMAIN tasks
          /\ Cardinality({i \in DOMAIN tasks : tasks'[i] # tasks[i]}) <= 1
          /\ \A i \in DOMAIN tasks : tasks[i].pc = "settled" => tasks'[i] = tasks[i]
     /\ (pc = "BATCH" /\ pc' # "BATCH") =>
          \A i \in DOMAIN tasks :
            tasks[i].pc = "settled" /\ tasks[i].result.status = "fulfilled"
    ]_vars

\* one call of the page has failed while another is at its store mutation
C2_Witness ==
  /\ pc = "BATCH"
  /\ \E i, j \in DOMAIN tasks : Failed(tasks[i]) /\ tasks[j].pc = "updating"

\* C3: what processItemsBatch returns.  At the join successCount is the
\* number of calls that settled with success and successCount + errorCount
\* the number of records of the page; the empty page gives 0 and 0.
C3_BatchCounts ==
  [][/\ (pc = "BATCH" /\ pc' # "BATCH") =>
          /\ batchResults'.successCount =
               Cardinality({i \in DOMAIN tasks : tasks[i].result = Success})
          /\ batchResults'.successCount + batchResults'.errorCount = Len(tasks)
     /\ CountsOf(<<>>) = [successCount |-> 0, errorCount |-> 0]
    ]_vars

\* a page of two records was joined with one success and one failure
C3_Witness ==
  /\ pc # "BATCH"
  /\ scanResult.count = 2
  /\ batchResults = [successCount |-> 1, errorCount |-> 1]

\* C4: the retry of a throttled scan is bounded.  A driver that gives up after
\* some number of throttled scans sends fewer scans again than the store
\* throttles; the store of the model throttles at most MaxThrottle scans.
C4_RetryIsBounded == reissued < MaxThrottle

\* C5: the binary split of scan errors.  After a scan error that is not the
\* throttling error the loop has ended in FATAL with no scan in flight, no
\* updater call started and none pending, one failed summary carrying the
\* error message and, once returned, statusCode 500 with that message; the
\* throttle wait is entered for throttling errors only.
C5_BinaryErrorSplit ==
  /\ fetchErrors > throttled =>
       /\ exit = "FATAL"
       /\ pc \in {"REPORTING", "RETURNED"}
       /\ fetchCalls = TotalServed + fetchErrors
       /\ tasks = <<>>
       /\ updaterCalls = processedCount
       /\ Len(reports) = 1
       /\ reports[1].status = "failed"
       /\ reports[1].error = OtherError.message
       /\ Returned =>
            /\ result.statusCode = 500
            /\ result.error = OtherError.message
            /\ result.message[2] = OtherError.message
  /\ pc = "THROTTLE_WAIT" => fetchErrors = throttled
  /\ reissued <= throttled

\* a run that processed a page and then returned 500 on a scan error
C5_Witness ==
  /\ Returned
  /\ fetchErrors > throttled
  /\ processedCount > 0
  /\ result.statusCode = 500

\* C6: sendJobSummaryEmail is called exactly once per invocation.  It is never
\* called twice; once the entry point has ended it was called, with status
\* success and no error after DONE, with status failed and the message of the
\* error that ended the run after FATAL.
C6_ReportedExactlyOnce ==
  /\ Len(reports) <= 1
  /\ pc \in {"REPORTING", "RETURNED", "THREW"} =>
       /\ Len(reports) = 1
       /\ exit \in {"DONE", "FATAL"}
       /\ exit = "DONE" => reports[1].status = "success" /\ reports[1].error = NONE
       /\ exit = "FATAL" =>
            /\ reports[1].status = "failed"
            /\ reports[1].error = jobError
            /\ reports[1].error \in
                 {ConfigMessage, CredentialsMessage, OtherError.message}
            /\ ConfigMissing(config) => reports[1].error = ConfigMessage

\* the configuration abort, reported once, with the summary sent by mail
C6_Witness ==
  /\ Returned
  /\ exit = "FATAL"
  /\ reports[1].error = ConfigMessage
  /\ sesSends = 1

\* C7: a failed notification changes nothing.  No exception leaves the entry
\* point, and the statusCode and counters returned are those of the run,
\* whatever SES answered and also when no send was made.
C7_NotificationFailureIgnored ==
  /\ pc # "THREW"
  /\ Returned =>
       /\ result.statusCode = (IF exit = "DONE" THEN 200 ELSE 500)
       /\ ResultCounters = Counters
       /\ sesSends <= 1

\* a successful run returned 200 although SES rejected the send
C7_Witness ==
  /\ Returned
  /\ sesAnswer = SesError
  /\ result.statusCode = 200
  /\ processedCount > 0

\* C8: with the table or the bucket identifier missing no scan is sent and no
\* updater call is made, and the entry point returns statusCode 500, the
\* message that names the two variables and all counters 0.
C8_MissingConfiguration ==
  (~Truthy(config.TABLE_NAME) \/ ~Truthy(config.S3_BUCKET_NAME)) =>
    /\ fetchCalls = 0
    /\ updaterCalls = 0
    /\ tasks = <<>>
    /\ pc \in {"IDLE", "REPORTING", "RETURNED"}
    /\ Returned =>
         /\ result.statusCode = 500
         /\ result.message = <<"Error in presigned URL regeneration: ", ConfigMessage>>
         /\ result.error = ConfigMessage
         /\ ResultCounters = <<0, 0, 0>>

\* the table is configured, the bucket is not, and the run returned
C8_Witness ==
  /\ Returned
  /\ Truthy(config.TABLE_NAME) /\ ~Truthy(config.S3_BUCKET_NAME)
  /\ result.statusCode = 500

\* C9: partial failure is not a job failure.  A run whose loop ended in DONE
\* returns statusCode 200 and reports success, whatever its errorCount;
\* statusCode 500 is returned only when the configuration is incomplete or a
\* scan failed with an error other than throttling.
C9_PartialFailureIsSuccess ==
  Returned =>
    /\ exit = "DONE" =>
         /\ result.statusCode = 200
         /\ reports[Len(reports)].status = "success"
    /\ result.statusCode = 500 =>
         \/ ConfigMissing(config)
         \/ CredentialsMissing(creds)
         \/ fetchErrors > throttled

\* every record of both pages failed, a scan was throttled, and the run
\* returned 200
C9_Witness ==
  /\ Returned
  /\ result.statusCode = 200
  /\ pageSizes = <<1, 1>>
  /\ result.successCount = 0
  /\ result.errorCount = 3
  /\ throttled = 1

\* C10: a record without object reference (absent or empty) is neither signed
\* nor written: its call has settled with a failure outcome at the fan-out,
\* with no signing call and no UpdateCommand, whatever its identifying fields.
C10_NoReferenceNoMutation ==
  \A i \in DOMAIN tasks :
    ~Truthy(tasks[i].item.objectKey) =>
      /\ Failed(tasks[i])
      /\ tasks[i].result.status = "fulfilled"
      /\ tasks[i].signCalls = 0
      /\ tasks[i].updateCalls = 0
      /\ tasks[i].key = NoKey

\* a page with an empty reference on a record that has both table keys, next
\* to a record with no reference and no identifying field
C10_Witness ==
  \E i, j \in DOMAIN tasks :
    /\ tasks[i].item.objectKey = "" /\ determinePrimaryKey(tasks[i].item) # NoKey
    /\ tasks[j].item.objectKey = NONE /\ determinePrimaryKey(tasks[j].item) = NoKey
    /\ Failed(tasks[i]) /\ Failed(tasks[j])

\* C11: the freshness timestamp is written on every attempt.  A call on a
\* record with an object reference and a resolvable key ends with one
\* UpdateCommand sent that sets presignedUrlTimestamp, also when signing failed.
C11_TimestampAlwaysWritten ==
  \A i \in DOMAIN tasks :
    LET t == tasks[i] IN
      (/\ t.pc = "settled"
       /\ Truthy(t.item.objectKey)
       /\ Truthy(t.item.imageName) \/ Truthy(t.item.selectionId) \/ Truthy(t.item.id))
      => /\ t.updateCalls = 1
         /\ \E n \in DOMAIN t.exprs : t.exprs[n] = "presignedUrlTimestamp"

\* C13: pages are processed one after the other.  Updater calls exist only
\* while the batch of the page just delivered is awaited; while a scan is in
\* flight or a timer pending no call is pending and the counts of every
\* delivered page are in the totals; at most one scan is in flight, none
\* during a batch.
C13_PagesSequential ==
  /\ tasks # <<>> => pc = "BATCH" /\ Len(tasks) = scanResult.count
  /\ pc \in {"SCANNING", "PAGE_DELAY", "THROTTLE_WAIT"} =>
       /\ tasks = <<>>
       /\ processedCount = updaterCalls
       /\ successCount = updatesOk
       /\ successCount + errorCount = processedCount + fetchErrors
  /\ fetchCalls = TotalServed + fetchErrors + (IF pc = "SCANNING" THEN 1 ELSE 0)

\* the scan of the second page is in flight after a first page of one record
\* was updated and counted
C13_Witness ==
  /\ pc = "SCANNING"
  /\ scanToken = 1
  /\ served[1] = 1
  /\ processedCount = 1 /\ successCount = 1

\* C14 as stated: after a fatal scan error the three counters reported and
\* returned are the totals of the pages processed before it, errorCount being
\* the number of their failed records.
C14_FatalCountersFromPagesOnly ==
  (fetchErrors > throttled /\ Returned) =>
    /\ ResultCounters = <<updaterCalls, updatesOk, updaterCalls - updatesOk>>
    /\ reports[1].errorCount = updaterCalls - updatesOk

\* C14 amended: after a fatal scan error the failed summary and the 500 body
\* carry processedCount and successCount of the pages processed before it, and
\* an errorCount of their failed records plus one for every scan that failed
\* so far, the fatal one included.
C14_FatalCountersPreserved ==
  fetchErrors > throttled =>
    LET kept == <<updaterCalls, updatesOk,
                  (updaterCalls - updatesOk) + fetchErrors>>
    IN /\ Len(reports) = 1
       /\ <<reports[1].processedCount, reports[1].successCount,
            reports[1].errorCount>> = kept
       /\ Returned => ResultCounters = kept

\* a page of one record failed, a scan was throttled, the next scan failed
\* for good, and the run returned
C14_Witness ==
  /\ Returned
  /\ fetchErrors = 2 /\ throttled = 1
  /\ result.processedCount = 1 /\ result.successCount = 0
  /\ result.errorCount = 3

\* C15: a run without scan errors over n pages sends exactly n scans and ends
\* with processedCount the number of records of all pages, successCount the
\* number of accepted updates and errorCount the rest; it returns 200 with
\* these counters, all 0 for the empty store.
C15_PagesAndSums ==
  (exit = "DONE" /\ fetchErrors = 0) =>
    /\ fetchCalls = Len(pageSizes)
    /\ Counters = <<TotalRecords, updatesOk, TotalRecords - updatesOk>>
    /\ Returned =>
         /\ result.statusCode = 200
         /\ ResultCounters = Counters
         /\ TotalRecords = 0 => ResultCounters = <<0, 0, 0>>

\* two pages of one record each, one updated and one failed, two scans
C15_Witness ==
  /\ Returned
  /\ pageSizes = <<1, 1>>
  /\ fetchErrors = 0 /\ fetchCalls = 2
  /\ ResultCounters = <<2, 1, 1>>

\* C16: one signing call and one UpdateCommand at most per record.  A call
\* that succeeded made exactly one of each; a call on a record with a
\* reference and a resolvable key, signed and not refused by the store, has
\* succeeded; no record is handed to the updater twice; one such record alone
\* in the store gives 200 and the counters 1, 1, 0.
C16_OneCallEach ==
  /\ \A i \in DOMAIN tasks :
       LET t == tasks[i] IN
         /\ t.signCalls <= 1 /\ t.updateCalls <= 1
         /\ t.updateCalls = 1 => t.signCalls = 1
         /\ Succeeded(t) => t.signCalls = 1 /\ t.updateCalls = 1
         /\ (/\ t.pc = "settled"
             /\ t.exprs = <<"presignedUrl", "presignedUrlTimestamp">>
             /\ Truthy(t.item.imageName) \/ Truthy(t.item.selectionId)
                  \/ Truthy(t.item.id)
             /\ t.result.error \notin {ThrottleError.message, OtherError.message})
            => Succeeded(t)
  /\ updaterCalls <= TotalRecords
  /\ (Returned /\ pageSizes = <<1>> /\ fetchErrors = 0 /\ updatesOk = 1) =>
       result.statusCode = 200 /\ ResultCounters = <<1, 1, 0>>

\* the store holds one record, it was signed and updated, the run returned
C16_Witness ==
  /\ Returned
  /\ pageSizes = <<1>>
  /\ updatesOk = 1 /\ fetchCalls = 1
  /\ result.statusCode = 200 /\ ResultCounters = <<1, 1, 0>>

\* C18: every throttled scan adds one to errorCount.  At DONE errorCount is
\* the number of failed record updates plus the number of throttled scans.
C18_ThrottleCountedOnce ==
  /\ exit = "DONE" => errorCount = (updaterCalls - updatesOk) + throttled
  /\ pc = "THROTTLE_WAIT" =>
       errorCount = (processedCount - successCount) + throttled

\* a run with two throttled scans and one failed record has ended normally
C18_Witness ==
  /\ Returned /\ exit = "DONE"
  /\ throttled = 2
  /\ updaterCalls - updatesOk = 1
  /\ result.errorCount = 3

\* C20: once the mail settings are read, a missing sender or a recipient list
\* that holds no address means that no SendEmailCommand is sent and that the
\* entry point is left without an exception.
C20_NoSendWithoutMailConfig ==
  (/\ mailEnv.SES_FROM_EMAIL # Unread
   /\ \/ ~Truthy(mailEnv.SES_FROM_EMAIL)
      \/ ~Truthy(mailEnv.SES_TO_EMAILS))
  => sesSends = 0 /\ pc # "THREW"

----------------------------------------------------------------------------
(* updateItemPresignedUrls on its own: one item of the table, updated by   *)
(* successive calls of the function, each one made on the item as a scan   *)
(* returns it.  An item is the function from the names of the attributes   *)
(* it holds to their values.                                               *)

MaxUpdates == 2
MaxClock == 2

Urls == {"url1", "url2"}

Range(seq) == {seq[i] : i \in DOMAIN seq}

\* an item that holds every attribute of the SelectionItem schema the model
\* follows, the two refreshed ones as an earlier run left them
FullItem ==
  [objectKey |-> "images/a.jpg", imageName |-> "a.jpg", selectionId |-> "sel1",
   id |-> "id1", username |-> "ann", presignedUrl |-> "url0",
   presignedUrlTimestamp |-> 0]

\* the items of the table: any of the attributes may be missing
UpdItems == {[f \in held |-> FullItem[f]] : held \in SUBSET DOMAIN FullItem}

\* item.f in JavaScript: undefined when the item holds no attribute f
Get(item, f) == IF f \in DOMAIN item THEN item[f] ELSE NONE

\* the fields of the item that updateItemPresignedUrls reads
Scanned(item) ==
  [objectKey |-> Get(item, "objectKey"), imageName |-> Get(item, "imageName"),
   selectionId |-> Get(item, "selectionId"), id |-> Get(item, "id")]

\* lines 104-118: the value staged with each name of updateExpressions, the
\* signed URL for presignedUrl and the time read at line 116 otherwise
AttributeValues(exprs, url, now) ==
  [f \in Range(exprs) |-> IF f = "presignedUrl" THEN url ELSE now]

\* lines 138-153: the effect of the accepted UpdateCommand on the item its
\* Key addresses, SET assigning each attribute named in the expression
ApplyUpdate(item, exprs, vals) ==
  [f \in DOMAIN item \cup Range(exprs) |->
     IF f \in Range(exprs) THEN vals[f] ELSE item[f]]

LastCall == calls[Len(calls)]

UpdInit ==
  /\ RunIdle
  /\ KeyIdle
  /\ dbItem \in UpdItems
  /\ calls = <<>>
  /\ values = NoValues
  /\ clock = 0
  /\ snaps = <<dbItem>>

\* lines 93-103: the next call of the function on the item, made once the
\* call before it has returned
UpdCall ==
  /\ Len(calls) < MaxUpdates
  /\ IF calls = <<>> THEN TRUE ELSE LastCall.pc = "settled"
  /\ LET t == StartUpdate(Scanned(dbItem))
     IN /\ calls' = Append(calls, t)
        /\ values' = IF t.pc = "signing"
                       THEN NoValues
                       ELSE AttributeValues(t.exprs, NONE, clock)
  /\ UNCHANGED <<dbItem, clock, snaps, runVars, keyVars>>

\* lines 103-153: getSignedUrl answers, with a URL or with an error
UpdSigned ==
  /\ calls # <<>>
  /\ LastCall.pc = "signing"
  /\ \E signed \in BOOLEAN, url \in Urls :
       LET t == AfterSign(LastCall, signed)
       IN /\ calls' = [calls EXCEPT ![Len(calls)] = t]
          /\ values' = AttributeValues(t.exprs, url, clock)
  /\ UNCHANGED <<dbItem, clock, snaps, runVars, keyVars>>

\* lines 153-162: the store answers the UpdateCommand
UpdStored ==
  /\ calls # <<>>
  /\ LastCall.pc = "updating"
  /\ \E err \in {NoError} \cup StoreErrors :
       /\ calls' = [calls EXCEPT ![Len(calls)] = AfterUpdate(LastCall, err)]
       /\ IF err = NoError
            THEN /\ dbItem' = ApplyUpdate(dbItem, LastCall.exprs, values)
                 /\ snaps' = Append(snaps, dbItem')
            ELSE UNCHANGED <<dbItem, snaps>>
  /\ UNCHANGED <<values, clock, runVars, keyVars>>

\* time passes between two readings of new Date()
Tick ==
  /\ clock < MaxClock
  /\ clock' = clock + 1
  /\ UNCHANGED <<dbItem, calls, values, snaps, runVars, keyVars>>

UpdNext ==
  \/ UpdCall
  \/ UpdSigned
  \/ UpdStored
  \/ Tick

UpdaterSpec == UpdInit /\ [][UpdNext]_vars

\* C12: the key returned follows the priority chain, a field being present
\* when it holds a non-empty value: imageName with selectionId when both are
\* present, else imageName, else selectionId, else id, else none.  None is
\* returned exactly when the three are absent, and the key is the same for
\* records that agree on the three fields.
C12_PriorityChain ==
  /\ \A i \in DOMAIN keyOut :
       LET r == keyPage[i]
           k == keyOut[i]
           img == Truthy(r.imageName)
           sel == Truthy(r.selectionId)
           gen == Truthy(r.id)
       IN /\ (img /\ sel) =>
               /\ k.attrs = {"imageName", "selectionId"}
               /\ k.imageName = r.imageName /\ k.selectionId = r.selectionId
               /\ k.id = NONE
          /\ (img /\ ~sel) =>
               /\ k.attrs = {"imageName"}
               /\ k.imageName = r.imageName
               /\ k.selectionId = NONE /\ k.id = NONE
          /\ (~img /\ sel) =>
               /\ k.attrs = {"selectionId"}
               /\ k.selectionId = r.selectionId
               /\ k.imageName = NONE /\ k.id = NONE
          /\ (~img /\ ~sel /\ gen) =>
               /\ k.attrs = {"id"}
               /\ k.id = r.id
               /\ k.imageName = NONE /\ k.selectionId = NONE
          /\ (k = NoKey) <=> (~img /\ ~sel /\ ~gen)
  /\ \A i, j \in DOMAIN keyOut :
       (/\ keyPage[i].imageName = keyPage[j].imageName
        /\ keyPage[i].selectionId = keyPage[j].selectionId
        /\ keyPage[i].id = keyPage[j].id) => keyOut[i] = keyOut[j]

\* a record with the three fields got the composite key and a record with
\* the id alone got the id key
C12_Witness ==
  /\ Len(keyOut) = 2
  /\ Truthy(keyPage[1].imageName) /\ Truthy(keyPage[1].selectionId)
  /\ Truthy(keyPage[1].id)
  /\ keyOut[1].attrs = {"imageName", "selectionId"}
  /\ keyPage[2].imageName = "" /\ keyPage[2].selectionId = NONE
  /\ keyOut[2].attrs = {"id"}

C17_UpdateIdempotentInShape ==
  LET Refreshed == {"presignedUrl", "presignedUrlTimestamp"}
      StoreMessages == {err.message : err \in StoreErrors}
  IN /\ \A n \in 2..Len(snaps) :
          /\ DOMAIN snaps[n] = DOMAIN snaps[n - 1] \cup Refreshed
          /\ \A f \in DOMAIN snaps[n - 1] \ Refreshed :
               snaps[n][f] = snaps[n - 1][f]
     /\ Len(snaps) >= 3 => DOMAIN snaps[3] = DOMAIN snaps[2]
     /\ Len(snaps) =
          1 + Cardinality({i \in DOMAIN calls : Succeeded(calls[i])})
     /\ (Len(calls) >= 2 /\ Succeeded(calls[1]) /\ calls[2].pc # "signing") =>
          /\ calls[2].signCalls = 1
          /\ "presignedUrl" \in Range(calls[2].exprs) =>
               /\ calls[2].updateCalls = 1
               /\ calls[2].key = calls[1].key
               /\ (/\ calls[2].pc = "settled"
                   /\ calls[2].result.error \notin StoreMessages)
                  => Succeeded(calls[2])

\* an item without the two fields was updated twice, at different times and
\* with different URLs
C17_Witness ==
  /\ Len(snaps) = 3
  /\ Len(calls) = 2 /\ Succeeded(calls[1]) /\ Succeeded(calls[2])
  /\ "username" \in DOMAIN snaps[1]
  /\ "presignedUrl" \notin DOMAIN snaps[1]
  /\ snaps[2].presignedUrl # snaps[3].presignedUrl
  /\ snaps[2].presignedUrlTimestamp # snaps[3].presignedUrlTimestamp

\* C21: a throttled scan leaves the continuation token held by the loop,
\* processedCount and successCount as they were, and the step out of the wait
\* sends a scan with the ExclusiveStartKey of the throttled one, which is the
\* token held (none for the first scan); the page it asks for was not served.
C21_RetryIdenticalFetch ==
  [][/\ (pc = "SCANNING" /\ pc' = "THROTTLE_WAIT") =>
          /\ lastEvaluatedKey' = lastEvaluatedKey
          /\ scanToken' = scanToken
          /\ processedCount' = processedCount
          /\ successCount' = successCount
     /\ pc = "THROTTLE_WAIT" =>
          /\ pc' = "SCANNING"
          /\ scanToken' = scanToken
          /\ scanToken' = lastEvaluatedKey
          /\ lastEvaluatedKey' = lastEvaluatedKey
          /\ processedCount' = processedCount
          /\ successCount' = successCount
          /\ fetchCalls' = fetchCalls + 1
          /\ served[scanToken + 1] = 0]_vars

\* the scan of the second page was throttled and is sent again with the
\* token of the first page, whose record stays counted
C21_Witness ==
  /\ pc = "SCANNING"
  /\ reissued = 1 /\ throttled = 1
  /\ scanToken = 1 /\ lastEvaluatedKey = 1
  /\ served = <<1, 0>>
  /\ processedCount = 1

\* C22: a call of updateItemPresignedUrls always ends with a fulfilled
\* promise, holding a success or a failure with a reason.  When the store
\* refuses the UpdateCommand the call ends as a failure that carries the
\* message of the error, and the loop stays where it was: in the batch, not
\* ended, the job status untouched.
C22_UpdaterNeverRaises ==
  [][/\ \A i \in DOMAIN tasks' :
          tasks'[i].pc = "settled" =>
            /\ tasks'[i].result.status = "fulfilled"
            /\ tasks'[i].result.success \/ tasks'[i].result.error # NONE
     /\ \A i \in DOMAIN tasks :
          (tasks[i].pc = "updating" /\ tasks' # <<>> /\ tasks'[i].pc = "settled") =>
            /\ IF updatesOk' = updatesOk
                 THEN /\ ~tasks'[i].result.success
                      /\ tasks'[i].result.error \in
                           {ThrottleError.message, OtherError.message}
                 ELSE tasks'[i].result.success
            /\ pc' = "BATCH" /\ exit' = "NONE"
            /\ jobStatus' = "success" /\ jobError' = NONE]_vars

\* the store refused the update of one record of a page of two while the
\* other call is still waiting for its signature
C22_Witness ==
  /\ pc = "BATCH" /\ Len(tasks) = 2
  /\ tasks[1].pc = "settled" /\ tasks[1].updateCalls = 1
  /\ tasks[1].result = Failure(OtherError.message)
  /\ tasks[2].pc = "signing"

\* C23: a record without imageName, selectionId and id never gets an
\* UpdateCommand and its call ends as a failure, with the reason "Unable to
\* determine primary key" once its URL was signed.  At the join the page adds
\* one error for each such record and one count for every record of the page,
\* and the loop goes on to the delay or to the normal exit.
C23_UnresolvableKeyFails ==
  [][LET NoIdent(t) == /\ ~Truthy(t.item.imageName)
                       /\ ~Truthy(t.item.selectionId)
                       /\ ~Truthy(t.item.id)
     IN /\ \A i \in DOMAIN tasks :
             NoIdent(tasks[i]) =>
               /\ tasks[i].updateCalls = 0 /\ tasks[i].key = NoKey
               /\ tasks[i].pc \in {"signing", "settled"}
               /\ tasks[i].pc = "settled" =>
                    /\ tasks[i].result.status = "fulfilled"
                    /\ ~tasks[i].result.success
                    /\ "presignedUrl" \in Range(tasks[i].exprs) =>
                         tasks[i].result.error = "Unable to determine primary key"
        /\ (pc = "BATCH" /\ pc' # "BATCH") =>
             LET lost == Cardinality({i \in DOMAIN tasks : NoIdent(tasks[i])})
             IN /\ errorCount' - errorCount >= lost
                /\ successCount' - successCount <= Len(tasks) - lost
                /\ (errorCount' - errorCount) + (successCount' - successCount)
                     = Len(tasks)
                /\ processedCount' = processedCount + Len(tasks)
                /\ updatesOk' = updatesOk
                /\ exit' # "FATAL"
                /\ pc' \in {"PAGE_DELAY", "REPORTING", "RETURNED"}]_vars

\* in a page of two the record without identifying fields was signed and
\* failed on its key, and the other record was updated
C23_Witness ==
  /\ pc = "BATCH" /\ Len(tasks) = 2
  /\ tasks[1].item.imageName = NONE /\ tasks[1].item.selectionId = NONE
  /\ tasks[1].item.id = NONE
  /\ tasks[1].signCalls = 1
  /\ tasks[1].result = Failure("Unable to determine primary key")
  /\ Succeeded(tasks[2])

\* C24: when the try block of processItemsBatch raises, the page is returned
\* as successCount 0 and errorCount the page size, whatever its calls
\* returned; the totals take these counts, and the loop goes on as after any
\* page: to the delay before the next scan when the page came with a token,
\* to the normal exit otherwise.
C24_JoinFaultFailsPage ==
  [][joinFaults' # joinFaults =>
       /\ batchResults' = [successCount |-> 0, errorCount |-> Len(tasks)]
       /\ Len(tasks) = scanResult.count
       /\ processedCount' = processedCount + Len(tasks)
       /\ successCount' = successCount
       /\ errorCount' = errorCount + Len(tasks)
       /\ exit' # "FATAL" /\ jobStatus' = "success"
       /\ lastEvaluatedKey' = scanResult.LastEvaluatedKey
       /\ IF scanResult.LastEvaluatedKey # 0
            THEN pc' = "PAGE_DELAY" /\ exit' = "NONE"
            ELSE exit' = "DONE" /\ pc' \in {"REPORTING", "RETURNED"}]_vars

\* the batch of the first page faulted after its record was updated; the page
\* counts as one error and the scan of the second page is in flight
C24_Witness ==
  /\ joinFaults = 1
  /\ pc = "SCANNING" /\ scanToken = 1 /\ fetchCalls = 2
  /\ updatesOk = 1
  /\ Counters = <<1, 0, 1>>

\* C25: the loop ends normally in the step that takes a scan answer without
\* a token, at once when the page is empty and at the join of its batch when
\* it is not, and in no other step; an answer with a token never ends it.
\* Once ended, no scan is sent.
C25_DoneIffNoToken ==
  [][/\ (exit = "NONE" /\ exit' = "DONE") =>
          /\ scanResult'.LastEvaluatedKey = 0
          /\ lastEvaluatedKey' = 0 /\ ~hasMoreItems'
          /\ \/ /\ pc = "SCANNING" /\ served' # served
                /\ scanResult'.count = 0
             \/ /\ pc = "BATCH" /\ \A i \in DOMAIN tasks : tasks[i].pc = "settled"
                /\ processedCount' = processedCount + scanResult.count
     /\ (pc = "SCANNING" /\ served' # served /\ scanResult'.count = 0) =>
          (exit' = "DONE" <=> scanResult'.LastEvaluatedKey = 0)
     /\ (pc = "SCANNING" /\ served' # served /\ scanResult'.count > 0) =>
          exit' = "NONE" /\ pc' = "BATCH"
     /\ (pc = "BATCH" /\ pc' # "BATCH") =>
          (exit' = "DONE" <=> scanResult.LastEvaluatedKey = 0)
     /\ exit' = "DONE" =>
          /\ scanResult'.LastEvaluatedKey = 0
          /\ pc' \in {"REPORTING", "RETURNED"}
     /\ exit = "DONE" => fetchCalls' = fetchCalls /\ exit' = "DONE"]_vars

\* the second page came without a token and the loop ended once its record
\* was handled
C25_Witness ==
  /\ exit = "DONE"
  /\ pageSizes = <<1, 1>> /\ served = <<1, 1>>
  /\ fetchCalls = 2
  /\ processedCount = 2

C27_CounterEquation ==
  /\ successCount + errorCount = processedCount + fetchErrors
  /\ successCount <= processedCount
  /\ fetchErrors - throttled \in {0, 1}
  /\ \A n \in DOMAIN reports :
       /\ reports[n].successCount + reports[n].errorCount
            = reports[n].processedCount + fetchErrors
       /\ reports[n].successCount <= reports[n].processedCount
  /\ Returned =>
       /\ result.successCount + result.errorCount
            = result.processedCount + fetchErrors
       /\ fetchErrors > throttled =>
            /\ result.statusCode = 500
            /\ reports[1].status = "failed"
            /\ result.errorCount
                 = (result.processedCount - result.successCount) + throttled + 1

\* the first scan failed for good: nothing was processed and the 500 body
\* carries one error
C27_Witness ==
  /\ Returned
  /\ fetchCalls = 1 /\ fetchErrors = 1 /\ throttled = 0
  /\ result.statusCode = 500
  /\ ResultCounters = <<0, 0, 1>>

\* C28: a scan answered with no record and a token does not end the loop:
\* no call of the updater is made, the counters stay as they are, the token
\* is kept, and after the delay the next scan is sent with that token.
C28_EmptyPageWithToken ==
  [][/\ (/\ pc = "SCANNING" /\ served' # served
         /\ scanResult'.count = 0 /\ scanResult'.LastEvaluatedKey # 0) =>
          /\ exit' = "NONE" /\ hasMoreItems'
          /\ pc' = "PAGE_DELAY"
          /\ tasks' = <<>> /\ updaterCalls' = updaterCalls
          /\ processedCount' = processedCount
          /\ successCount' = successCount
          /\ errorCount' = errorCount
          /\ lastEvaluatedKey' = scanResult'.LastEvaluatedKey
          /\ reports' = <<>>
     /\ pc = "PAGE_DELAY" =>
          /\ pc' = "SCANNING"
          /\ scanToken' = lastEvaluatedKey /\ scanToken' # 0
          /\ fetchCalls' = fetchCalls + 1]_vars

\* the first page was empty and came with a token; the scan of the second
\* page is in flight with it and nothing was counted
C28_Witness ==
  /\ pc = "SCANNING"
  /\ pageSizes = <<0, 1>> /\ served = <<1, 0>>
  /\ scanToken = 1 /\ fetchCalls = 2
  /\ updaterCalls = 0
  /\ Counters = <<0, 0, 0>>

\* C29: an UpdateCommand the store did not accept ends its call at once, as
\* a failure after the one UpdateCommand of the call, also when the store
\* answered with the throttling error: no wait is started, no scan is sent or
\* counted as throttled, and the batch goes on.  At the join such a record is
\* one of the errors of the page and the page is not scanned again.  The
\* throttle wait is entered from a scan in flight only.
C29_UpdateThrottleNotRetried ==
  [][/\ \A i \in DOMAIN tasks :
          (/\ tasks[i].pc = "updating" /\ updatesOk' = updatesOk
           /\ i \in DOMAIN tasks' /\ tasks'[i] # tasks[i]) =>
            /\ tasks'[i].pc = "settled"
            /\ tasks'[i].updateCalls = 1
            /\ tasks'[i].result.status = "fulfilled" /\ ~tasks'[i].result.success
            /\ tasks'[i].result.error
                 \in {"Throughput exceeded", "DynamoDB error"}
            /\ pc' = "BATCH" /\ timer' = 0
            /\ throttled' = throttled /\ fetchErrors' = fetchErrors
            /\ fetchCalls' = fetchCalls /\ reissued' = reissued
            /\ errorCount' = errorCount
     /\ (pc = "BATCH" /\ pc' # "BATCH") =>
          LET refused == {i \in DOMAIN tasks :
                            tasks[i].result.error = "Throughput exceeded"}
          IN /\ \A i \in refused : tasks[i].updateCalls = 1
             /\ errorCount' - errorCount >= Cardinality(refused)
             /\ successCount' - successCount <= Len(tasks) - Cardinality(refused)
             /\ processedCount' = processedCount + Len(tasks)
             /\ pc' # "THROTTLE_WAIT"
             /\ throttled' = throttled /\ served' = served
             /\ lastEvaluatedKey' = scanResult.LastEvaluatedKey
     /\ pc' = "THROTTLE_WAIT" =>
          pc = "SCANNING" /\ throttled' = throttled + 1]_vars

\* the store throttled the update of the only record of the page: the call
\* has failed after one UpdateCommand and no scan was throttled
C29_Witness ==
  /\ pc = "BATCH" /\ Len(tasks) = 1
  /\ tasks[1].pc = "settled" /\ tasks[1].updateCalls = 1
  /\ tasks[1].result = Failure("Throughput exceeded")
  /\ throttled = 0 /\ fetchErrors = 0 /\ timer = 0

\* C30: with finitely many pages and at most MaxThrottle failed scans, a run
\* whose awaits are all answered ends: from some point on it has returned,
\* its loop having ended in DONE or FATAL, with one summary handed to the
\* reporter and a result of statusCode 200 or 500 that matches the exit.
C30_EventuallyReturns ==
  <>[](/\ pc = "RETURNED"
       /\ exit \in {"DONE", "FATAL"}
       /\ Len(reports) = 1
       /\ reports[1].status = (IF exit = "DONE" THEN "success" ELSE "failed")
       /\ result.statusCode = (IF exit = "DONE" THEN 200 ELSE 500))

\* a run over two pages returned after two throttled scans
C30_Witness ==
  /\ pc = "RETURNED" /\ exit = "DONE"
  /\ throttled = 2 /\ reissued = 2
  /\ Len(pageSizes) = 2 /\ served = <<1, 1>>
  /\ Len(reports) = 1

====
